---- MODULE Spec2Model ----
(***************************************************************************)
(* A model of gosto (src/gosto.go): the batched Put/Get/Delete operations  *)
(* of a client of a remote entity store.  One client runs one public call  *)
(* at a time; within a call the chunk goroutines interleave freely.        *)
(* Slices are sequences: the Go index j (from 0) is the position j + 1.    *)
(***************************************************************************)
EXTENDS Integers, Sequences, FiniteSets, TLC

\* ------------------------------------------------------------------ bounds
\* Batch sizes are c full chunks, or c full chunks and one element more, for c
\* in 0..MaxFull.
MaxFull == 1
\* Longest outcome array handed to realError on its own.
MaxLen == 3

\* --------------------------------------------------------------- constants
putMultiLimit == 500
getMultiLimit == 1000
deleteMultiLimit == 500

VARIABLES
    IgnoreFieldMismatch, \* the package variable
    inTransaction,       \* Gosto.inTransaction
    pc,                  \* position of the caller: idle, waiting, returned, ...
    op,                  \* the batch operation running: PutMulti, GetMulti, DeleteMulti
    wrapper,             \* the single-item wrapper that called it: Put, Get, Delete or none
    src,                 \* the entities handed to the call (src of PutMulti, dst of GetMulti)
    store,               \* what the store holds under the key of each element
    keys,                \* keys resolved by extractKeys (or given to DeleteMulti)
    multiErr,            \* the shared outcome array
    any,                 \* the shared error flag (any / anyErr)
    mu,                  \* the set of goroutines holding the mutex (empty or one)
    wg,                  \* the WaitGroup counter
    tasks,               \* the chunk goroutines, by their index i
    ret,                 \* the error returned to the caller
    retKeys,             \* the keys returned to the caller (PutMulti, Put, GetAll, Next)
    arg,                 \* the shape of the argument of the running operation
    tx,                  \* whether the function given to RunInTransaction is running
    query                \* the query call of GetAll or Next: what the service did

vars == <<IgnoreFieldMismatch, inTransaction, pc, op, wrapper, src, store, keys,
          multiErr, any, mu, wg, tasks, ret, retKeys, arg, tx, query>>

\* ------------------------------------------------------------------ errors
\* An error value: a scalar error has a kind and the text of Error(); a
\* datastore.MultiError has the slots errs.  Nil is the nil error.
Err(k, t) == [kind |-> k, text |-> t, errs |-> << >>]
Nil == Err("nil", "")
MultiError(es) == [kind |-> "MultiError", text |-> "", errs |-> es]
ErrNoSuchEntity == Err("NoSuchEntity", "datastore: no such entity")
ErrInvalidEntityType == Err("InvalidEntityType", "datastore: invalid entity type")
ErrInvalidKey == Err("InvalidKey", "datastore: invalid key")
ErrFieldMismatch(f) == Err("FieldMismatch", "datastore: cannot load field " \o f)
ErrRPC == Err("rpc", "rpc error: unavailable")
ErrNotSlice == Err("gosto", "Gosto: value must be a slice or pointer-to-slice")
ErrNoKey == Err("gosto", "Gosto: cannot find a key for struct")
ErrEmptyStringID == Err("gosto", "Gosto: empty string id on put")
ErrNotPointer == Err("gosto", "Gosto: expected pointer to a struct")
ErrInvalidShape == Err("gosto", "Gosto: expected pointer to a struct or a struct")
ErrNotPtrSlice == Err("gosto", "Gosto: Expected dst to be a pointer to a slice or nil")
ErrNotStruct == Err("gosto", "Gosto: Expected struct")
Done == Err("Done", "datastore: query has no more results")

IsMulti(e) == e.kind = "MultiError"

\* errFieldMismatch returns true if err is *datastore.ErrFieldMismatch
errFieldMismatch(err) == err.kind = "FieldMismatch"

\* NotFound returns true if err is a MultiError and err[idx] is ErrNoSuchEntity.
NotFound(err, idx) ==
    IF IsMulti(err)
    THEN idx < Len(err.errs) /\ err.errs[idx + 1] = ErrNoSuchEntity
    ELSE FALSE

realErrorScalarAlways(multiError) ==
    IF Len(multiError) = 0 THEN Nil
    ELSE LET init == multiError[1]
             differs == \E i \in 2..Len(multiError) :
                 IF init = Nil \/ multiError[i] = Nil
                 THEN init # multiError[i]
                 ELSE init.text # multiError[i].text
         IN IF differs THEN MultiError(multiError) ELSE init

\* realError: a single error if each slot is the same, else the MultiError.
realError(multiError) ==
    IF Len(multiError) = 0 THEN Nil
    ELSE LET init == multiError[1]
             differs == \E i \in 2..Len(multiError) :
                 IF init = Nil \/ multiError[i] = Nil
                 THEN init # multiError[i]
                 ELSE init.text # multiError[i].text
         IN IF differs THEN MultiError(multiError)
            ELSE IF init.kind = "FieldMismatch" THEN MultiError(multiError)
            ELSE IF init = ErrInvalidEntityType \/ init = ErrNoSuchEntity
                 THEN MultiError(multiError)
            ELSE init

\* ------------------------------------------------------------ Go arithmetic
\* Go's integer division truncates toward zero.
GoDiv(a, b) == IF a >= 0 THEN a \div b ELSE -((-a) \div b)

GoroutinesFloor(n, limit) == GoDiv(n, limit) + 1
\* goroutines := (len(keys)-1)/limit + 1
Goroutines(n, limit) == GoDiv(n - 1, limit) + 1

\* lo := i * limit
ChunkLo(i, limit) == i * limit
\* hi := (i + 1) * limit; if hi > len(keys) { hi = len(keys) }
ChunkHi(i, limit, n) == IF (i + 1) * limit > n THEN n ELSE (i + 1) * limit

\* s[lo:hi]
Slice(s, lo, hi) == SubSeq(s, lo + 1, hi)

Min(a, b) == IF a < b THEN a ELSE b
CopyMisaligned(dst, lo, hi, from) ==
    [j \in 1..Len(dst) |->
        IF j > lo /\ j <= hi /\ j <= Len(from) THEN from[j] ELSE dst[j]]
\* copy(dst[lo:hi], from)
Copy(dst, lo, hi, from) ==
    [j \in 1..Len(dst) |->
        IF j > lo /\ j <= lo + Min(hi - lo, Len(from)) THEN from[j - lo] ELSE dst[j]]

\* for j := lo; j < hi; j++ { dst[j] = e }
Broadcast(dst, lo, hi, e) ==
    [j \in 1..Len(dst) |-> IF j > lo /\ j <= hi THEN e ELSE dst[j]]

\* ---------------------------------------------------------------- entities
\* An entity: its identity (id 0: none), whether the identity field is a
\* string, whether it is a struct at all, and the data loaded into it.
Entity(i, s, v) == [id |-> i, hasStringID |-> s, valid |-> v, data |-> "zero"]
Key(i) == [id |-> i]
\* datastore.Key.Incomplete
Incomplete(key) == key.id = 0

\* getStructKey(src) -> (key, hasStringID, err): fails unless src is a struct
\* or a pointer to one.
getStructKey(e) ==
    IF e.valid
    THEN [key |-> Key(e.id), hasStringID |-> e.hasStringID, err |-> Nil]
    ELSE [key |-> Key(0), hasStringID |-> FALSE, err |-> ErrInvalidShape]

elemErrorNoStringCheck(e, putRequest) ==
    LET r == getStructKey(e)
    IN IF r.err # Nil THEN r.err
       ELSE IF ~putRequest /\ Incomplete(r.key) THEN ErrNoKey
       ELSE Nil
elemErrorNoKeyCheck(e, putRequest) ==
    LET r == getStructKey(e)
    IN IF r.err # Nil THEN r.err
       ELSE IF putRequest /\ Incomplete(r.key) /\ r.hasStringID THEN ErrEmptyStringID
       ELSE Nil
\* What the loop of extractKeys decides for one element.
elemError(e, putRequest) ==
    LET r == getStructKey(e)
    IN IF r.err # Nil THEN r.err
       ELSE IF ~putRequest /\ Incomplete(r.key) THEN ErrNoKey
       ELSE IF putRequest /\ Incomplete(r.key) /\ r.hasStringID THEN ErrEmptyStringID
       ELSE Nil

\* extractKeys(src, putRequest) -> (keys, err): the first failing element
\* decides the error.
extractKeys(isSlice, v, putRequest) ==
    IF ~isSlice THEN [keys |-> << >>, err |-> ErrNotSlice]
    ELSE LET bad == {i \in 1..Len(v) : elemError(v[i], putRequest) # Nil}
         IN IF bad # {}
            THEN [keys |-> << >>,
                  err |-> elemError(v[CHOOSE i \in bad : \A j \in bad : i <= j],
                                    putRequest)]
            ELSE [keys |-> [i \in 1..Len(v) |-> getStructKey(v[i]).key], err |-> Nil]

\* The batches a caller hands in: n elements whose identities follow a shape.
ElemShapes == {"complete", "firstIncomplete", "lastEmptyString", "lastInvalid"}
Elements(n, shape) ==
    [i \in 1..n |->
        CASE shape = "complete" -> Entity(i, FALSE, TRUE)
          [] shape = "firstIncomplete" -> Entity(IF i = 1 THEN 0 ELSE i, FALSE, TRUE)
          [] shape = "lastEmptyString" ->
                IF i = n THEN Entity(0, TRUE, TRUE) ELSE Entity(i, TRUE, TRUE)
          [] shape = "lastInvalid" -> Entity(i, FALSE, i # n)]

Sizes(limit) == {c * limit + d : c \in 0..MaxFull, d \in {0, 1}}

\* ------------------------------------------------------------ store service
\* What the store holds under the key of each element of a batch.
StoreShapes == {"present", "absent", "mismatch", "firstAbsent", "lastMismatch"}
Store(n, shape) ==
    [i \in 1..n |->
        CASE shape = "present" -> "present"
          [] shape = "absent" -> "absent"
          [] shape = "mismatch" -> "mismatch"
          [] shape = "firstAbsent" -> IF i = 1 THEN "absent" ELSE "present"
          [] shape = "lastMismatch" -> IF i = n THEN "mismatch" ELSE "present"]

\* The outcome the store reports for one key it is asked to read.
ReadOutcome(status) ==
    CASE status = "present" -> Nil
      [] status = "absent" -> ErrNoSuchEntity
      [] status = "mismatch" -> ErrFieldMismatch("x")

\* The entity the store loads for one key it is asked to read.
Load(e, status) ==
    CASE status = "present" -> [e EXCEPT !.data = "stored"]
      [] status = "absent" -> e
      [] status = "mismatch" -> [e EXCEPT !.data = "partial"]

\* Itemized answers of a create or delete call over len elements: the first
\* element alone failed, or every element failed.
ItemShapes == {"first", "all"}
Itemized(len, shape) ==
    [k \in 1..len |->
        CASE shape = "first" -> IF k = 1 THEN ErrInvalidEntityType ELSE Nil
          [] shape = "all" -> IF k % 2 = 1 THEN ErrInvalidKey ELSE ErrRPC]

\* The answers of the service to a create or delete call over len elements:
\* success, one non-itemized error, or an itemized error aligned to the input.
WriteAnswers(len) ==
    {Nil, ErrInvalidKey}
    \cup (IF len = 0 THEN {} ELSE {MultiError(Itemized(len, s)) : s \in ItemShapes})

\* The answers of the service to a read call over the keys ks: success, one
\* non-itemized error, or the itemized outcomes.
ReadAnswers(st, ks) ==
    LET outs == [k \in 1..Len(ks) |-> ReadOutcome(st[ks[k].id])]
    IN {ErrRPC}
       \cup (IF \E k \in 1..Len(ks) : outs[k] # Nil THEN {MultiError(outs)} ELSE {Nil})

\* The keys a create call returns: a generated identifier for every incomplete
\* key of an element the call saved.
Generated(n, j) == n + j
PutKeys(ks, n, lo, answer) ==
    IF answer # Nil /\ ~IsMulti(answer) THEN << >>
    ELSE [k \in 1..Len(ks) |->
            IF Incomplete(ks[k]) /\ (answer = Nil \/ answer.errs[k] = Nil)
            THEN Key(Generated(n, lo + k)) ELSE ks[k]]

\* What a read call loads into the destinations ds of the keys ks.
ReadLoads(st, ks, ds) == [k \in 1..Len(ds) |-> Load(ds[k], st[ks[k].id])]

\* ------------------------------------------------------------------- state
\* var dskeys []*datastore.Key; var dsdst []interface{}; var dixs []int:
\* declared in GetMulti and never appended to.
dskeys == << >>
dsdst == << >>
dixs == << >>

Limit(o) ==
    CASE o = "PutMulti" -> putMultiLimit
      [] o = "GetMulti" -> getMultiLimit
      [] o = "DeleteMulti" -> deleteMultiLimit

\* The length the chunk bounds are clamped to: len(keys), or len(dskeys) in
\* GetMulti.
Clamp(o) == IF o = "GetMulti" THEN Len(dskeys) ELSE Len(keys)

\* No query call has been made and no Iterator is held.
NoQuery ==
    [called |-> FALSE, keysOnly |-> FALSE, lenBefore |-> 0, err |-> Nil, iter |-> FALSE]

\* The shape of the argument: Put, Get and Delete wrap theirs in a slice.
ArgOf(w, isSlice) ==
    CASE w = "Put" -> "value"
      [] w = "Get" -> "pointer"
      [] w = "Delete" -> "key"
      [] OTHER -> IF isSlice THEN "slice" ELSE "other"

NoTasks == [i \in {} |-> Nil]
NewTask == [pc |-> "start", lo |-> 0, hi |-> 0, err |-> Nil, rkeys |-> << >>]

\* NewGosto: inTransaction is left false; IgnoreFieldMismatch starts true.
Init ==
    /\ IgnoreFieldMismatch = TRUE
    /\ inTransaction = FALSE
    /\ pc = "idle"
    /\ op = "none"
    /\ wrapper = "none"
    /\ src = << >>
    /\ store = << >>
    /\ keys = << >>
    /\ multiErr = << >>
    /\ any = FALSE
    /\ mu = {}
    /\ wg = 0
    /\ tasks = NoTasks
    /\ ret = Nil
    /\ retKeys = << >>
    /\ arg = "none"
    /\ tx = "none"
    /\ query = NoQuery

\* The caller assigns the package variable between calls.
SetIgnoreFieldMismatch(b) ==
    /\ pc = "idle"
    /\ IgnoreFieldMismatch # b
    /\ IgnoreFieldMismatch' = b
    /\ UNCHANGED <<inTransaction, arg, tx, query, pc, op, wrapper, src, store, keys,
                   multiErr, any,
                   mu, wg, tasks, ret, retKeys>>

\* A call that returns err before any goroutine is spawned.
Fail(o, w, v, err) ==
    /\ pc' = "returned"
    /\ op' = o
    /\ wrapper' = w
    /\ src' = v
    /\ ret' = err
    /\ retKeys' = << >>
    /\ UNCHANGED <<keys, multiErr, any, mu, wg, tasks>>

\* multiErr, any := make(MultiError, len(keys)), false; wg.Add(goroutines);
\* one goroutine per i < goroutines.
Spawn(o, w, v, ks, n) ==
    /\ pc' = "waiting"
    /\ op' = o
    /\ wrapper' = w
    /\ src' = v
    /\ keys' = ks
    /\ multiErr' = [j \in 1..Len(ks) |-> Nil]
    /\ any' = FALSE
    /\ mu' = {}
    /\ wg' = Goroutines(n, Limit(o))
    /\ tasks' = [i \in 0..(Goroutines(n, Limit(o)) - 1) |-> NewTask]
    /\ UNCHANGED <<ret, retKeys>>

\* PutMulti up to wg.Wait().
PutMultiBegin(w, isSlice, v) ==
    LET x == extractKeys(isSlice, v, TRUE)
    IN /\ pc = "idle"
       /\ arg' = ArgOf(w, isSlice)
       /\ UNCHANGED <<IgnoreFieldMismatch, inTransaction, store, tx, query>>
       /\ IF x.err # Nil THEN Fail("PutMulti", w, v, x.err)
          ELSE Spawn("PutMulti", w, v, x.keys, Len(x.keys))

CallPutMulti(n, shape, isSlice) == PutMultiBegin("none", isSlice, Elements(n, shape))

\* Put: PutMulti([]interface{}{src}).
CallPut(shape) == PutMultiBegin("Put", TRUE, Elements(1, shape))

\* The in-transaction branch of GetMulti: the outcome array after one read
\* call over all keys answered err (err is not nil).
TxOutcomes(err, n, ignore) ==
    IF IsMulti(err)
    THEN [i \in 1..n |->
            IF err.errs[i] # Nil /\ (~ignore \/ ~errFieldMismatch(err.errs[i]))
            THEN err.errs[i] ELSE Nil]
    ELSE [i \in 1..n |-> err]

\* The in-transaction branch of GetMulti: the error returned after the read
\* call answered err.
TxReturn(err, n, ignore) ==
    IF err = Nil THEN Nil
    ELSE LET out == TxOutcomes(err, n, ignore)
             anyErr == ~IsMulti(err) \/ \E i \in 1..n : out[i] # Nil
         IN IF anyErr THEN realError(out) ELSE Nil

\* GetMulti up to wg.Wait() (or, in a transaction, up to its return).
GetMultiBegin(w, isSlice, v, st) ==
    LET x == extractKeys(isSlice, v, FALSE)
    IN /\ pc = "idle"
       /\ arg' = ArgOf(w, isSlice)
       /\ UNCHANGED <<IgnoreFieldMismatch, inTransaction, tx, query>>
       /\ IF x.err # Nil
          THEN Fail("GetMulti", w, v, x.err) /\ UNCHANGED store
          ELSE /\ store' = st
               /\ IF inTransaction
                  THEN \E answer \in ReadAnswers(st, x.keys) :
                          /\ pc' = "returned"
                          /\ op' = "GetMulti"
                          /\ wrapper' = w
                          /\ src' = ReadLoads(st, x.keys, v)
                          /\ keys' = x.keys
                          /\ multiErr' = IF answer = Nil THEN [j \in 1..Len(v) |-> Nil]
                                         ELSE TxOutcomes(answer, Len(v), IgnoreFieldMismatch)
                          /\ ret' = TxReturn(answer, Len(v), IgnoreFieldMismatch)
                          /\ UNCHANGED <<any, mu, wg, tasks, retKeys>>
                  ELSE Spawn("GetMulti", w, v, x.keys, Len(dskeys))

CallGetMulti(n, shape, storeShape, isSlice) ==
    GetMultiBegin("none", isSlice, Elements(n, shape), Store(n, storeShape))

\* Get: dst must be a pointer; then GetMulti([]interface{}{dst}).
CallGet(isPtr, shape, storeShape) ==
    IF ~isPtr
    THEN /\ pc = "idle"
         /\ arg' = "other"
         /\ Fail("GetMulti", "Get", Elements(1, shape), ErrNotPointer)
         /\ UNCHANGED <<IgnoreFieldMismatch, inTransaction, store, tx, query>>
    ELSE GetMultiBegin("Get", TRUE, Elements(1, shape), Store(1, storeShape))

\* DeleteMulti up to wg.Wait(): no keys, no call.
DeleteMultiBegin(w, ks) ==
    /\ pc = "idle"
    /\ arg' = ArgOf(w, TRUE)
    /\ UNCHANGED <<IgnoreFieldMismatch, inTransaction, store, tx, query>>
    /\ IF Len(ks) = 0
       THEN /\ pc' = "returned"
            /\ op' = "DeleteMulti"
            /\ wrapper' = w
            /\ keys' = ks
            /\ ret' = Nil
            /\ UNCHANGED <<src, multiErr, any, mu, wg, tasks, retKeys>>
       ELSE Spawn("DeleteMulti", w, << >>, ks, Len(ks))

CallDeleteMulti(n) == DeleteMultiBegin("none", [i \in 1..n |-> Key(i)])

\* Delete: DeleteMulti([]*datastore.Key{key}).
CallDelete == DeleteMultiBegin("Delete", <<Key(1)>>)

\* --------------------------------------------------------- chunk goroutines
Running(i) == pc = "waiting" /\ i \in DOMAIN tasks

TaskStartLocked(i) ==
    /\ Running(i)
    /\ tasks[i].pc = "start"
    /\ mu = {}
    /\ mu' = {i}
    /\ tasks' = [tasks EXCEPT ![i].pc = "incall",
                              ![i].lo = ChunkLo(i, Limit(op)),
                              ![i].hi = ChunkHi(i, Limit(op), Clamp(op))]
    /\ UNCHANGED <<IgnoreFieldMismatch, inTransaction, arg, tx, query, pc, op, wrapper, src, store,
                   keys, multiErr, any, wg, ret, retKeys>>
\* lo, hi of goroutine i, and the service call is issued.
TaskStart(i) ==
    /\ Running(i)
    /\ tasks[i].pc = "start"
    /\ tasks' = [tasks EXCEPT ![i].pc = "incall",
                              ![i].lo = ChunkLo(i, Limit(op)),
                              ![i].hi = ChunkHi(i, Limit(op), Clamp(op))]
    /\ UNCHANGED <<IgnoreFieldMismatch, inTransaction, arg, tx, query, pc, op, wrapper, src, store,
                   keys, multiErr, any, mu, wg, ret, retKeys>>

\* rkeys, pmerr := datastore.PutMulti(keys[lo:hi], v.Slice(lo, hi))
PutMultiReturn(i) ==
    /\ Running(i)
    /\ op = "PutMulti"
    /\ tasks[i].pc = "incall"
    /\ \E answer \in WriteAnswers(tasks[i].hi - tasks[i].lo) :
          tasks' = [tasks EXCEPT
                       ![i].pc = "check",
                       ![i].err = answer,
                       ![i].rkeys = PutKeys(Slice(keys, tasks[i].lo, tasks[i].hi),
                                            Len(keys), tasks[i].lo, answer)]
    /\ UNCHANGED <<IgnoreFieldMismatch, inTransaction, arg, tx, query, pc, op, wrapper, src, store,
                   keys, multiErr, any, mu, wg, ret, retKeys>>

\* gmerr := datastore.GetMulti(g.Context, dskeys[lo:hi], dsdst[lo:hi]): what
\* is loaded lands in the elements of dsdst[lo:hi].
GetMultiReturn(i) ==
    /\ Running(i)
    /\ op = "GetMulti"
    /\ tasks[i].pc = "incall"
    /\ \E answer \in ReadAnswers(store, Slice(dskeys, tasks[i].lo, tasks[i].hi)) :
          tasks' = [tasks EXCEPT ![i].pc = "check", ![i].err = answer]
    /\ UNCHANGED <<IgnoreFieldMismatch, inTransaction, arg, tx, query, pc, op, wrapper, src, store,
                   keys, multiErr, any, mu, wg, ret, retKeys>>

\* dmerr := datastore.DeleteMulti(g.Context, keys[lo:hi])
DeleteMultiReturn(i) ==
    /\ Running(i)
    /\ op = "DeleteMulti"
    /\ tasks[i].pc = "incall"
    /\ \E answer \in WriteAnswers(tasks[i].hi - tasks[i].lo) :
          tasks' = [tasks EXCEPT ![i].pc = "check", ![i].err = answer]
    /\ UNCHANGED <<IgnoreFieldMismatch, inTransaction, arg, tx, query, pc, op, wrapper, src, store,
                   keys, multiErr, any, mu, wg, ret, retKeys>>

\* if err != nil { mu.Lock()
TaskLock(i) ==
    /\ Running(i)
    /\ tasks[i].pc = "check"
    /\ tasks[i].err # Nil
    /\ mu = {}
    /\ mu' = {i}
    /\ tasks' = [tasks EXCEPT ![i].pc = "locked"]
    /\ UNCHANGED <<IgnoreFieldMismatch, inTransaction, arg, tx, query, pc, op, wrapper, src, store,
                   keys, multiErr, any, wg, ret, retKeys>>

TaskUnlockLate(i) ==
    /\ Running(i)
    /\ tasks[i].pc = "locked"
    /\ any' = TRUE
    /\ tasks' = [tasks EXCEPT ![i].pc = "write"]
    /\ UNCHANGED <<IgnoreFieldMismatch, inTransaction, arg, tx, query, pc, op, wrapper, src, store,
                   keys, multiErr, mu, wg, ret, retKeys>>
\* any = true; mu.Unlock()
TaskUnlock(i) ==
    /\ Running(i)
    /\ tasks[i].pc = "locked"
    /\ any' = TRUE
    /\ mu' = mu \ {i}
    /\ tasks' = [tasks EXCEPT ![i].pc = "write"]
    /\ UNCHANGED <<IgnoreFieldMismatch, inTransaction, arg, tx, query, pc, op, wrapper, src, store,
                   keys, multiErr, wg, ret, retKeys>>

\* The itemized branch of the GetMulti goroutine: for i, idx := range
\* dixs[lo:hi], multiErr[idx] = merr[i] unless merr[i] is nil or an ignored
\* field mismatch.
GetItemized(out, idxs, merr, ignore) ==
    [j \in 1..Len(out) |->
        LET hit == {k \in 1..Len(idxs) :
                       /\ idxs[k] + 1 = j
                       /\ ~(merr[k] = Nil \/ (ignore /\ errFieldMismatch(merr[k])))}
        IN IF hit = {} THEN out[j]
           ELSE merr[CHOOSE k \in hit : \A m \in hit : m <= k]]

\* The writes of goroutine t to the outcome array after a call that failed:
\* the broadcast of a non-itemized error, or the itemized errors.
Written(o, out, t, ignore) ==
    IF ~IsMulti(t.err) THEN Broadcast(out, t.lo, t.hi, t.err)
    ELSE IF o = "GetMulti"
         THEN GetItemized(out, Slice(dixs, t.lo, t.hi), t.err.errs, ignore)
    ELSE Copy(out, t.lo, t.hi, t.err.errs)

TaskWriteNoDone(i) ==
    /\ Running(i)
    /\ tasks[i].pc = "write"
    /\ multiErr' = Written(op, multiErr, tasks[i], IgnoreFieldMismatch)
    /\ tasks' = [tasks EXCEPT ![i].pc = "done"]
    /\ UNCHANGED <<IgnoreFieldMismatch, inTransaction, arg, tx, query, pc, op, wrapper, src, store,
                   keys, any, mu, wg, ret, retKeys>>
\* The goroutine writes its outcomes and returns: the deferred wg.Done() runs.
TaskWrite(i) ==
    /\ Running(i)
    /\ tasks[i].pc = "write"
    /\ multiErr' = Written(op, multiErr, tasks[i], IgnoreFieldMismatch)
    /\ wg' = wg - 1
    /\ tasks' = [tasks EXCEPT ![i].pc = "done"]
    /\ UNCHANGED <<IgnoreFieldMismatch, inTransaction, arg, tx, query, pc, op, wrapper, src, store,
                   keys, any, mu, ret, retKeys>>

\* The call succeeded: the goroutine returns and the deferred wg.Done() runs.
TaskDone(i) ==
    /\ Running(i)
    /\ tasks[i].pc = "check"
    /\ tasks[i].err = Nil
    /\ wg' = wg - 1
    /\ tasks' = [tasks EXCEPT ![i].pc = "done"]
    /\ UNCHANGED <<IgnoreFieldMismatch, inTransaction, arg, tx, query, pc, op, wrapper, src, store,
                   keys, multiErr, any, mu, ret, retKeys>>

\* ------------------------------------------------------------------ returns
\* if any { return realError(multiErr) }; return nil
BatchError == IF any THEN realError(multiErr) ELSE Nil

\* What a single-item wrapper makes of the error of its batch call: the
\* first slot of a MultiError, else the error itself.
Unwrap(err) == IF IsMulti(err) THEN err.errs[1] ELSE err

\* return keys, err
PutMultiKeys == keys
\* Put: nil, err on an error, else ks[0], nil.
PutKey(ks, err) == IF err # Nil THEN << >> ELSE <<ks[1]>>

WaitOverEarly == wg <= 1
\* wg.Wait() returns once the counter is zero.
WaitOver == wg = 0

\* wg.Wait() is over: the batch call returns, through its wrapper if any.
Return ==
    /\ pc = "waiting"
    /\ WaitOver
    /\ pc' = "returned"
    /\ ret' = IF wrapper = "none" THEN BatchError ELSE Unwrap(BatchError)
    /\ retKeys' = CASE op = "PutMulti" /\ wrapper = "none" -> PutMultiKeys
                    [] op = "PutMulti" /\ wrapper = "Put" -> PutKey(PutMultiKeys, BatchError)
                    [] OTHER -> << >>
    /\ UNCHANGED <<IgnoreFieldMismatch, inTransaction, arg, tx, query, op, wrapper, src, store, keys,
                   multiErr, any, mu, wg, tasks>>

\* The caller has its result; the per-call state is discarded.
Reset ==
    /\ pc = "returned"
    /\ pc' = "idle"
    /\ op' = "none"
    /\ wrapper' = "none"
    /\ src' = << >>
    /\ store' = << >>
    /\ keys' = << >>
    /\ multiErr' = << >>
    /\ any' = FALSE
    /\ mu' = {}
    /\ wg' = 0
    /\ tasks' = NoTasks
    /\ ret' = Nil
    /\ retKeys' = << >>
    /\ arg' = "none"
    /\ query' = [NoQuery EXCEPT !.iter = query.iter]
    /\ UNCHANGED <<IgnoreFieldMismatch, inTransaction, tx>>

TaskIds == 0..MaxFull
WriteShapes == {"complete", "firstIncomplete", "lastEmptyString"}
ReadShapes == {"complete", "firstIncomplete", "lastInvalid"}

Next ==
    \/ \E b \in BOOLEAN : SetIgnoreFieldMismatch(b)
    \/ \E n \in Sizes(putMultiLimit), shape \in WriteShapes, isSlice \in BOOLEAN :
          CallPutMulti(n, shape, isSlice)
    \/ \E shape \in WriteShapes : CallPut(shape)
    \/ \E n \in Sizes(getMultiLimit), shape \in ReadShapes, st \in StoreShapes,
          isSlice \in BOOLEAN : CallGetMulti(n, shape, st, isSlice)
    \/ \E isPtr \in BOOLEAN, shape \in ReadShapes, st \in StoreShapes :
          CallGet(isPtr, shape, st)
    \/ \E n \in Sizes(deleteMultiLimit) : CallDeleteMulti(n)
    \/ CallDelete
    \/ \E i \in TaskIds : TaskStart(i)
    \/ \E i \in TaskIds : PutMultiReturn(i)
    \/ \E i \in TaskIds : GetMultiReturn(i)
    \/ \E i \in TaskIds : DeleteMultiReturn(i)
    \/ \E i \in TaskIds : TaskLock(i)
    \/ \E i \in TaskIds : TaskUnlock(i)
    \/ \E i \in TaskIds : TaskWrite(i)
    \/ \E i \in TaskIds : TaskDone(i)
    \/ Return
    \/ Reset

Spec == Init /\ [][Next]_vars

\* One step of goroutine i.
TaskStep(i) ==
    \/ TaskStart(i)
    \/ PutMultiReturn(i)
    \/ GetMultiReturn(i)
    \/ DeleteMultiReturn(i)
    \/ TaskLock(i)
    \/ TaskUnlock(i)
    \/ TaskWrite(i)
    \/ TaskDone(i)

\* A step of the call in progress: of one of its goroutines, or its return.
Progress == (\E i \in TaskIds : TaskStep(i)) \/ Return

\* While a goroutine can run or the caller can be woken from wg.Wait(), one
\* of them is scheduled; every service call returns.
Fairness == WF_vars(Progress)

\* Stores under which a chunk read answers nil, itemized, or both in one call.
BatchStores == {"present", "absent", "firstAbsent"}

\* The batch calls that get as far as spawning goroutines, and what follows.
NextBatch ==
    \/ \E n \in Sizes(putMultiLimit) : CallPutMulti(n, "complete", TRUE)
    \/ \E n \in Sizes(getMultiLimit), st \in BatchStores :
          CallGetMulti(n, "complete", st, TRUE)
    \/ \E n \in Sizes(deleteMultiLimit) : CallDeleteMulti(n)
    \/ Progress
    \/ Reset

FairSpec == Init /\ [][NextBatch]_vars /\ Fairness

\* ------------------------------------------------- queries and transactions
\* setStructKey(src, key): writes the key into the key fields of the struct
\* src points to; fails, leaving src alone, when src is not a struct.
setStructKey(e, key) ==
    IF e.valid
    THEN [e |-> [e EXCEPT !.id = key.id], err |-> Nil]
    ELSE [e |-> e, err |-> ErrInvalidShape]

\* What GetAll may be handed as dst: nil, something that is not a pointer, a
\* pointer to something that is not a slice, or a pointer to a slice of
\* structs, of pointers to structs, or of something else.
DstKinds == {"nil", "notPointer", "notSlice", "structs", "pointers", "scalars"}

DstCheckNone(kind) == Nil
\* The checks of GetAll on dst ahead of the query.
DstCheck(kind) ==
    IF kind \in {"notPointer", "notSlice"} THEN ErrNotPtrSlice ELSE Nil

\* elemType.Kind() == reflect.Struct, after a pointer is dereferenced.
ElemStruct(kind) == kind \in {"structs", "pointers"}

\* The elements dst holds before the call.
Before(kind, n) ==
    IF kind \in {"structs", "pointers"} THEN Elements(n, "complete")
    ELSE IF kind = "scalars" THEN [i \in 1..n |-> Entity(i, FALSE, FALSE)]
    ELSE << >>

\* What the service answers to a query with k results: the keys and the
\* error.  A field mismatch comes with the keys; any other error with none.
QueryErrors == {Nil, ErrFieldMismatch("f"), ErrRPC}
QueryKeys(k, err) == IF err = ErrRPC THEN << >> ELSE [i \in 1..k |-> Key(i)]

\* What the service appends to dst: nothing for a keys-only query, else one
\* loaded entity per result.
Appended(kind, k, keysOnly, err) ==
    IF kind = "nil" \/ keysOnly \/ err = ErrRPC THEN << >>
    ELSE [i \in 1..k |-> [Entity(0, FALSE, ElemStruct(kind)) EXCEPT !.data = "loaded"]]

\* The error of a query after the mismatch filter of GetAll.
FilterQuery(err, ignore) == IF errFieldMismatch(err) /\ ignore THEN Nil ELSE err

\* The loop of GetAll over the returned keys: element vLenBefore+i of v gets
\* key i.
StampAll(v, vLenBefore, ks) ==
    [j \in 1..Len(v) |->
        IF vLenBefore < j /\ j <= vLenBefore + Len(ks)
        THEN setStructKey(v[j], ks[j - vLenBefore]).e
        ELSE v[j]]

\* GetAll past its checks on dst: v is dst before the call, ks and err what
\* the service returned, app what it appended.
GetAll(kind, v, ks, err, app, ignore) ==
    LET got == v \o app
        zero == [i \in 1..Len(ks) |-> Entity(0, FALSE, TRUE)]
    IN IF err # Nil /\ ~errFieldMismatch(err)
       THEN [dst |-> got, keys |-> ks, err |-> err]
       ELSE IF kind = "nil" \/ Len(ks) = 0
       THEN [dst |-> got, keys |-> ks, err |-> FilterQuery(err, ignore)]
       ELSE IF ~ElemStruct(kind)
       THEN [dst |-> got, keys |-> ks, err |-> ErrNotStruct]
       ELSE [dst |-> StampAll(got \o zero, Len(v), ks), keys |-> ks,
             err |-> FilterQuery(err, ignore)]

\* A call that is not a batch call returns.
Answer(o, a, v, ks, err) ==
    /\ pc = "idle"
    /\ pc' = "returned"
    /\ op' = o
    /\ arg' = a
    /\ wrapper' = "none"
    /\ src' = v
    /\ ret' = err
    /\ retKeys' = ks
    /\ UNCHANGED <<IgnoreFieldMismatch, inTransaction, tx, store, keys, multiErr,
                   any, mu, wg, tasks>>

\* GetAll(q, dst), q having k results.
CallGetAll(kind, n, k, keysOnly, err) ==
    IF DstCheck(kind) # Nil
    THEN /\ Answer("GetAll", kind, Before(kind, n), << >>, DstCheck(kind))
         /\ UNCHANGED query
    ELSE LET r == GetAll(kind, Before(kind, n), QueryKeys(k, err), err,
                         Appended(kind, k, keysOnly, err), IgnoreFieldMismatch)
         IN /\ Answer("GetAll", kind, r.dst, r.keys, r.err)
            /\ query' = [called |-> TRUE, keysOnly |-> keysOnly,
                         lenBefore |-> Len(Before(kind, n)), err |-> err,
                         iter |-> query.iter]

\* Count(q): the answer of the service, passed through.
CallCount(err) ==
    /\ Answer("Count", "none", << >>, << >>, err)
    /\ query' = [NoQuery EXCEPT !.called = TRUE, !.err = err, !.iter = query.iter]

\* Run(q): the caller holds an Iterator.
Run ==
    /\ pc = "idle"
    /\ ~query.iter
    /\ query' = [query EXCEPT !.iter = TRUE]
    /\ UNCHANGED <<IgnoreFieldMismatch, inTransaction, arg, tx, pc, op, wrapper, src,
                   store, keys, multiErr, any, mu, wg, tasks, ret, retKeys>>

\* What the cursor may answer: an entity, an entity that does not fit dst,
\* exhaustion, or a failure.
CursorErrors == {Nil, ErrFieldMismatch("f"), Done, ErrRPC}

NextPassesAlwaysFilter(err, ignore) == err = Nil \/ errFieldMismatch(err)
\* Next goes on to stamp the key: err is nil or an ignored field mismatch.
NextPasses(err, ignore) == ~(err # Nil /\ (~ignore \/ ~errFieldMismatch(err)))

\* Iterator.Next(dst), the cursor having answered k, err and loaded into e.
IteratorNext(kind, e, k, err, ignore) ==
    IF ~NextPasses(err, ignore)
    THEN [dst |-> e, keys |-> k, err |-> err]
    ELSE [dst |-> IF kind = "nil" THEN e ELSE <<setStructKey(e[1], k[1]).e>>,
          keys |-> k, err |-> Nil]

\* What dst of Next holds once the cursor has answered.
Loaded(kind, err) ==
    IF kind = "nil" THEN << >>
    ELSE IF err = Nil \/ errFieldMismatch(err)
    THEN <<[Entity(0, FALSE, TRUE) EXCEPT !.data = "loaded"]>>
    ELSE <<Entity(0, FALSE, TRUE)>>

\* The key the cursor returns with err.
CursorKey(err) == IF err = Nil \/ errFieldMismatch(err) THEN <<Key(1)>> ELSE << >>

CallNext(kind, err) ==
    /\ query.iter
    /\ LET r == IteratorNext(kind, Loaded(kind, err), CursorKey(err), err,
                             IgnoreFieldMismatch)
       IN Answer("Next", kind, r.dst, r.keys, r.err)
    /\ query' = [query EXCEPT !.called = TRUE, !.err = err]

RunInTransactionBeginMarked ==
    /\ pc = "idle"
    /\ tx = "none"
    /\ tx' = "open"
    /\ inTransaction' = TRUE
    /\ UNCHANGED <<IgnoreFieldMismatch, arg, query, pc, op, wrapper, src,
                   store, keys, multiErr, any, mu, wg, tasks, ret, retKeys>>
\* RunInTransaction: the service opens a transaction and calls f.
RunInTransactionBegin ==
    /\ pc = "idle"
    /\ tx = "none"
    /\ tx' = "open"
    /\ UNCHANGED <<IgnoreFieldMismatch, inTransaction, arg, query, pc, op, wrapper, src,
                   store, keys, multiErr, any, mu, wg, tasks, ret, retKeys>>

\* f has returned: the service commits or rolls back, and RunInTransaction
\* returns its error.
RunInTransactionEnd(err) ==
    /\ pc = "idle"
    /\ tx = "open"
    /\ tx' = "none"
    /\ pc' = "returned"
    /\ op' = "RunInTransaction"
    /\ ret' = err
    /\ UNCHANGED <<IgnoreFieldMismatch, inTransaction, arg, query, wrapper, src,
                   store, keys, multiErr, any, mu, wg, tasks, retKeys>>

\* The client at batch sizes below one chunk, with queries and transactions.
NextClient ==
    \/ \E b \in BOOLEAN : SetIgnoreFieldMismatch(b)
    \/ \E n \in 0..MaxLen, shape \in WriteShapes, isSlice \in BOOLEAN :
          CallPutMulti(n, shape, isSlice)
    \/ \E shape \in WriteShapes : CallPut(shape)
    \/ \E n \in 0..MaxLen, shape \in ReadShapes, st \in BatchStores, isSlice \in BOOLEAN :
          CallGetMulti(n, shape, st, isSlice)
    \/ \E isPtr \in BOOLEAN, shape \in ReadShapes, st \in BatchStores :
          CallGet(isPtr, shape, st)
    \/ \E n \in 0..MaxLen : CallDeleteMulti(n)
    \/ CallDelete
    \/ Progress
    \/ Reset
    \/ RunInTransactionBegin
    \/ \E err \in {Nil, ErrRPC} : RunInTransactionEnd(err)
    \/ \E err \in {Nil, ErrRPC} : CallCount(err)
    \/ \E kind \in DstKinds, n \in 0..MaxLen, k \in 0..MaxLen, keysOnly \in BOOLEAN,
          err \in QueryErrors : CallGetAll(kind, n, k, keysOnly, err)
    \/ Run
    \/ \E kind \in {"nil", "struct"}, err \in CursorErrors : CallNext(kind, err)

SpecClient == Init /\ [][NextClient]_vars

\* ------------------------------------------------- realError on its own
\* The errors an outcome slot can hold.
ErrorAlphabet == {Nil, ErrNoSuchEntity, ErrInvalidEntityType, ErrInvalidKey,
                  ErrFieldMismatch("x"), ErrFieldMismatch("y"), ErrRPC}
Outcomes == UNION {[1..n -> ErrorAlphabet] : n \in 0..MaxLen}

InitRealError ==
    /\ IgnoreFieldMismatch = TRUE
    /\ inTransaction = FALSE
    /\ pc = "realError"
    /\ op = "none"
    /\ wrapper = "none"
    /\ src = << >>
    /\ store = << >>
    /\ keys = << >>
    /\ multiErr \in Outcomes
    /\ any = FALSE
    /\ mu = {}
    /\ wg = 0
    /\ tasks = NoTasks
    /\ ret = Nil
    /\ retKeys = << >>
    /\ arg = "none"
    /\ tx = "none"
    /\ query = NoQuery

CallRealError ==
    /\ pc = "realError"
    /\ pc' = "collapsed"
    /\ ret' = realError(multiErr)
    /\ UNCHANGED <<IgnoreFieldMismatch, inTransaction, arg, tx, query, op, wrapper, src, store, keys,
                   multiErr, any, mu, wg, tasks, retKeys>>

NextRealError == CallRealError

SpecRealError == InitRealError /\ [][NextRealError]_vars

\* ------------------------------------------------------------------ claims
Ceil(n, l) == (n + l - 1) \div l

\* The batch call has returned after its keys were resolved.
Resolved == pc = "returned" /\ ret.kind # "gosto"

\* The batch call has returned after spawning its chunk goroutines.
Dispatched(o) == Resolved /\ op = o /\ DOMAIN tasks # {}

\* What the service reported for the element at offset k of the chunk of task t.
Reported(t, k) ==
    IF t.err = Nil THEN Nil
    ELSE IF IsMulti(t.err) THEN t.err.errs[k]
    ELSE t.err

\* C1: whenever Get or GetMulti returns nil for a destination with complete
\* keys, each destination element holds the entity the store holds under that
\* element's key.
C1_GetLoadsEntity ==
    (Resolved /\ op = "GetMulti" /\ ret = Nil) =>
        \A i \in 1..Len(src) :
            store[keys[i].id] = "present" => src[i] = Load(src[i], "present")

\* C2: for every element whose key is incomplete and to which the create call
\* of its chunk assigns an identifier, the key PutMulti returns at that index
\* (and the key Put returns) is the generated key.
C2_PutReturnsGeneratedKeys ==
    (Dispatched("PutMulti") /\ (wrapper = "Put" => ret = Nil)) =>
        \A i \in DOMAIN tasks : \A k \in 1..Len(tasks[i].rkeys) :
            (Incomplete(keys[tasks[i].lo + k]) /\ ~Incomplete(tasks[i].rkeys[k]))
                => /\ Len(retKeys) >= tasks[i].lo + k
                   /\ retKeys[tasks[i].lo + k] = tasks[i].rkeys[k]

\* C3: a GetMulti of N >= 1 complete-key elements outside a transaction issues
\* exactly ceil(N/1000) read calls, each over a contiguous range of at most
\* 1000 keys, every key in exactly one call, and the outcome array has length N.
C3_ChunkedRead ==
    (Resolved /\ op = "GetMulti" /\ wrapper = "none" /\ ~inTransaction
              /\ Len(keys) >= 1) =>
        /\ Cardinality({i \in DOMAIN tasks : tasks[i].pc # "start"})
               = Ceil(Len(keys), getMultiLimit)
        /\ \A i \in DOMAIN tasks : tasks[i].hi - tasks[i].lo <= getMultiLimit
        /\ \A j \in 0..(Len(keys) - 1) :
               Cardinality({i \in DOMAIN tasks :
                               tasks[i].lo <= j /\ j < tasks[i].hi}) = 1
        /\ Len(multiErr) = Len(keys)

\* C4: Get with a key the store holds no entity for returns an error err with
\* NotFound(err, 0).
C4_GetAbsentIsNotFound ==
    (Resolved /\ op = "GetMulti" /\ Len(keys) >= 1
              /\ store[keys[1].id] = "absent") => NotFound(ret, 0)

\* An error that surfaces a field mismatch for element i (from 1).
SurfacesMismatch(err, i) ==
    IF IsMulti(err) THEN errFieldMismatch(err.errs[i]) ELSE errFieldMismatch(err)

\* C5: when the store reports a field mismatch for element i of a Get or
\* GetMulti, with IgnoreFieldMismatch on the outcome at i is nil (and the call
\* returns nil if no other element failed); with it off the call returns an
\* error that surfaces the mismatch at i.
C5_SchemaDrift ==
    (Resolved /\ op = "GetMulti") =>
        \A i \in 1..Len(keys) :
            store[keys[i].id] = "mismatch" =>
                IF IgnoreFieldMismatch
                THEN /\ multiErr[i] = Nil
                     /\ ((\A j \in 1..Len(keys) : store[keys[j].id] # "absent")
                          /\ (\A t \in DOMAIN tasks :
                                 tasks[t].err = Nil \/ IsMulti(tasks[t].err)))
                            => ret = Nil
                ELSE SurfacesMismatch(ret, i)

\* The kinds realError keeps itemized even when every slot is the same.
AlwaysItemized == {"FieldMismatch", "InvalidEntityType", "NoSuchEntity"}

\* C6: realError of an outcome array: empty -> nil; all slots nil -> nil; all
\* slots non-nil with the same text and of a kind outside the always-itemized
\* kinds -> that single error; all slots the same error of an always-itemized
\* kind -> the full array (so NotFound holds at every index when all are
\* not-found); any other array -> the full array, every slot unchanged.
C6_CollapsePolicy ==
    pc = "collapsed" =>
        LET m == multiErr
            n == Len(multiErr)
            allNil == \A i \in 1..n : m[i] = Nil
            sameText == \A i \in 1..n : m[i] # Nil /\ m[i].text = m[1].text
            sameKind == \A i \in 1..n : m[i].kind = m[1].kind
        IN CASE n = 0 -> ret = Nil
             [] n > 0 /\ allNil -> ret = Nil
             [] n > 0 /\ sameText /\ sameKind /\ m[1].kind \notin AlwaysItemized ->
                    ret = m[1]
             [] n > 0 /\ sameText /\ sameKind /\ m[1].kind \in AlwaysItemized ->
                    /\ ret = MultiError(m)
                    /\ m[1] = ErrNoSuchEntity => \A i \in 0..(n - 1) : NotFound(ret, i)
             [] OTHER ->
                    /\ IsMulti(ret)
                    /\ Len(ret.errs) = n
                    /\ \A i \in 1..n : ret.errs[i] = m[i]

\* C6 witness: a uniform array of two or more slots collapsed to its scalar.
C6_Witness ==
    /\ pc = "collapsed"
    /\ Len(multiErr) >= 2
    /\ ret = ErrInvalidKey

\* C7: for PutMulti and DeleteMulti over N >= 1 items, the outcome array
\* handed to realError has length N and its slot for every item holds what the
\* service reported for that item: the k-th error of an itemized chunk error
\* at lo + k, a non-itemized chunk error at every index of [lo, hi), nil for
\* the chunks whose call succeeded.
C7_OutcomeAlignment ==
    ((pc = "returned" \/ (pc = "waiting" /\ wg = 0))
        /\ op \in {"PutMulti", "DeleteMulti"} /\ DOMAIN tasks # {}
        /\ Len(keys) >= 1) =>
        /\ Len(multiErr) = Len(keys)
        /\ \A j \in 1..Len(keys) :
              \E i \in DOMAIN tasks :
                  /\ tasks[i].lo < j /\ j <= tasks[i].hi
                  /\ multiErr[j] = Reported(tasks[i], j - tasks[i].lo)

\* C7 witness: a batch of two chunks, the first failed itemized with distinct
\* errors and the second failed with a non-itemized error, has returned.
C7_Witness ==
    /\ pc = "returned"
    /\ op = "PutMulti"
    /\ Len(keys) > putMultiLimit
    /\ IsMulti(tasks[0].err)
    /\ tasks[0].err.errs[1] # tasks[0].err.errs[2]
    /\ tasks[1].err = ErrInvalidKey
    /\ IsMulti(ret)

\* Whether the service reported a failure for some element of the batch.
ServiceFailure ==
    IF op = "GetMulti"
    THEN Len(keys) >= 1 /\ \E i \in DOMAIN tasks : tasks[i].err # Nil
    ELSE \E i \in DOMAIN tasks :
             tasks[i].hi > tasks[i].lo /\ tasks[i].err # Nil

\* C8: PutMulti, GetMulti and DeleteMulti return a non-nil error if the
\* service reported a failure for at least one element, and nil if every
\* chunk call succeeded.
C8_NoSilentPartialSuccess ==
    (Resolved /\ wrapper = "none" /\ DOMAIN tasks # {}) =>
        /\ ServiceFailure => ret # Nil
        /\ (\A i \in DOMAIN tasks : tasks[i].err = Nil) => ret = Nil

\* C9: for N >= 1 and the limit L of PutMulti and DeleteMulti, the [lo, hi)
\* ranges the chunk goroutines compute are contiguous, pairwise disjoint, each
\* of length 1..L, and together cover [0, N) exactly once.
C9_ChunkPartition ==
    (pc \in {"waiting", "returned"} /\ op \in {"PutMulti", "DeleteMulti"}
        /\ Len(keys) >= 1) =>
        LET started == {i \in DOMAIN tasks : tasks[i].pc # "start"}
        IN /\ \A i \in started :
                 /\ tasks[i].hi - tasks[i].lo >= 1
                 /\ tasks[i].hi - tasks[i].lo <= Limit(op)
                 /\ tasks[i].hi <= Len(keys)
                 /\ i = 0 => tasks[i].lo = 0
           /\ \A i, j \in started :
                 /\ j = i + 1 => tasks[j].lo = tasks[i].hi
                 /\ i # j => (tasks[i].hi <= tasks[j].lo \/ tasks[j].hi <= tasks[i].lo)
           /\ started = DOMAIN tasks =>
                 \A x \in 0..(Len(keys) - 1) :
                     Cardinality({i \in started :
                                     tasks[i].lo <= x /\ x < tasks[i].hi}) = 1

\* C9 witness: a batch of one full chunk and a remainder, every range computed.
C9_Witness ==
    /\ pc = "waiting"
    /\ op = "DeleteMulti"
    /\ Len(keys) = deleteMultiLimit + 1
    /\ \A i \in DOMAIN tasks : tasks[i].pc # "start"
    /\ tasks[1].lo = deleteMultiLimit /\ tasks[1].hi = deleteMultiLimit + 1

\* C10: a batch operation over N items with limit L issues exactly ceil(N/L)
\* service calls, and none when N = 0.
C10_ChunkCount ==
    (Resolved /\ wrapper = "none" /\ op \in {"PutMulti", "GetMulti", "DeleteMulti"}) =>
        Cardinality({i \in DOMAIN tasks : tasks[i].pc # "start"})
            = Ceil(Len(keys), Limit(op))

\* The elements of the batch are all structs, handed in as a slice (or
\* wrapped into one by Put or Get).
WellShaped == arg # "other" /\ \A i \in 1..Len(src) : src[i].valid

\* An element whose identity is a string that is empty.
EmptyStringID(e) == e.id = 0 /\ e.hasStringID

\* C11: Put/PutMulti dispatches the create call for a batch whose incomplete
\* keys belong to elements without a string identity, and fails with the
\* empty-string-id error, with no goroutine spawned, no service call and no
\* keys returned, when some element has an empty string identity.
C11_PutIdentityRule ==
    (op = "PutMulti" /\ pc \in {"waiting", "returned"} /\ WellShaped) =>
        IF \E i \in 1..Len(src) : EmptyStringID(src[i])
        THEN /\ pc = "returned"
             /\ ret = ErrEmptyStringID
             /\ DOMAIN tasks = {}
             /\ retKeys = << >>
        ELSE /\ DOMAIN tasks # {}
             /\ Len(keys) = Len(src)
             /\ ret.kind # "gosto"
             /\ pc = "returned" => \A i \in DOMAIN tasks : tasks[i].pc = "done"

\* C11 witness: a Put of an element with an incomplete key and no string
\* identity has succeeded.
C11_Witness ==
    /\ pc = "returned"
    /\ op = "PutMulti"
    /\ wrapper = "Put"
    /\ ret = Nil
    /\ Len(keys) = 1
    /\ Incomplete(keys[1]) /\ ~src[1].hasStringID
    /\ DOMAIN tasks = {0}
    /\ tasks[0].pc = "done"

\* C12: when an element of the destination of Get/GetMulti resolves to an
\* incomplete key, the call fails with the missing-key error, no goroutine is
\* spawned, no service call is issued and no destination element is modified.
C12_ReadIdentityRule ==
    (op = "GetMulti" /\ pc \in {"waiting", "returned"} /\ WellShaped
        /\ \E i \in 1..Len(src) : src[i].id = 0) =>
        /\ pc = "returned"
        /\ ret = ErrNoKey
        /\ DOMAIN tasks = {}
        /\ ~query.called
        /\ \A i \in 1..Len(src) : src[i].data = "zero"

\* C12 witness: a GetMulti whose first element alone has an incomplete key
\* has failed.
C12_Witness ==
    /\ pc = "returned"
    /\ op = "GetMulti"
    /\ arg = "slice"
    /\ Len(src) > 1
    /\ src[1].id = 0 /\ src[2].id # 0
    /\ ret = ErrNoKey

\* The batch operations, which fan out into chunk goroutines.
Batch == op \in {"PutMulti", "GetMulti", "DeleteMulti"}

\* C14: a batch call returns only after every goroutine it spawned has
\* finished; no goroutine is left that could still write the outcome array
\* or the error flag.
C14_FanInBarrier ==
    (pc = "returned" /\ Batch) =>
        /\ wg = 0
        /\ mu = {}
        /\ \A i \in DOMAIN tasks : tasks[i].pc = "done"

\* C14 witness: a call over two chunks has returned, one of its goroutines
\* having left early on a non-itemized error.
C14_Witness ==
    /\ pc = "returned"
    /\ Batch
    /\ DOMAIN tasks = {0, 1}
    /\ \E i \in DOMAIN tasks : tasks[i].err # Nil /\ ~IsMulti(tasks[i].err)

C16_NoLockAcrossIO ==
    \A i \in DOMAIN tasks : tasks[i].pc = "incall" => i \notin mu

\* C16 witness: two goroutines are inside their service calls at once.
C16_Witness ==
    /\ pc = "waiting"
    /\ DOMAIN tasks = {0, 1}
    /\ tasks[0].pc = "incall"
    /\ tasks[1].pc = "incall"

\* The goroutines that have not yet run their deferred wg.Done().
Live == {i \in DOMAIN tasks : tasks[i].pc # "done"}

\* C20: while a batch call waits, the WaitGroup counter is the number of
\* goroutines still to finish, and the call eventually returns.
C20_BatchTerminates ==
    /\ [](pc = "waiting" => wg = Cardinality(Live))
    /\ (pc = "waiting") ~> (pc = "returned")

\* C20 witness: a call over two chunks has returned after one chunk failed
\* with an itemized and the other with a non-itemized error.
C20_Witness ==
    /\ pc = "returned"
    /\ DOMAIN tasks = {0, 1}
    /\ \E i, j \in DOMAIN tasks :
          /\ IsMulti(tasks[i].err)
          /\ tasks[j].err # Nil /\ ~IsMulti(tasks[j].err)

\* C13: after GetAll with a non-nil destination has returned k keys and no
\* error, the destination is k longer than before the call and the element
\* at (length before)+i carries key i, for keys-only and ordinary queries.
C13_MaterializationSize ==
    (pc = "returned" /\ op = "GetAll" /\ arg # "nil" /\ query.called /\ ret = Nil) =>
        /\ Len(src) = query.lenBefore + Len(retKeys)
        /\ \A i \in 1..Len(retKeys) :
              /\ query.lenBefore + i <= Len(src)
              /\ src[query.lenBefore + i].id = retKeys[i].id

\* No call to the store service has been issued in the operation.
NoServiceCall == DOMAIN tasks = {} /\ ~query.called

\* The errors about the shape of dst or src that come ahead of the query or
\* the batch call.
EarlyShapeErrors == {ErrNotSlice, ErrNotPointer, ErrNotPtrSlice}

\* C17 as stated: every input-shape error, the one about the element type of
\* the destination of GetAll included, is returned before any service call.
C17_ShapeErrorsFirst ==
    (pc = "returned" /\ ret \in EarlyShapeErrors \cup {ErrNotStruct}) => NoServiceCall

\* C17 amended: an argument that is not a slice, not a pointer or not a
\* pointer to a slice is refused before any service call; the refusal of a
\* destination whose elements are not structs comes from GetAll only after
\* the query has run and returned at least one key.
C17_ShapeErrorsFirstButElem ==
    pc = "returned" =>
        /\ ret \in EarlyShapeErrors => NoServiceCall
        /\ (op \in {"PutMulti", "GetMulti"} /\ arg = "other") => ret \in EarlyShapeErrors
        /\ (op = "GetAll" /\ arg \in {"notPointer", "notSlice"}) => ret = ErrNotPtrSlice
        /\ ret = ErrNotStruct =>
              /\ op = "GetAll"
              /\ arg = "scalars"
              /\ query.called
              /\ Len(retKeys) > 0

\* C17 witness: GetAll has refused a destination of non-struct elements,
\* after the query returned keys.
C17_Witness ==
    /\ pc = "returned"
    /\ op = "GetAll"
    /\ ret = ErrNotStruct
    /\ query.called
    /\ Len(retKeys) > 0

\* C18: Next returns nil exactly when the cursor answered nil, or a field
\* mismatch while IgnoreFieldMismatch is on; then the key is stamped onto a
\* non-nil destination; otherwise the error of the cursor is returned as it
\* is and the destination gets no key.
C18_NextOutcome ==
    (pc = "returned" /\ op = "Next") =>
        LET ok == query.err = Nil \/ (IgnoreFieldMismatch /\ errFieldMismatch(query.err))
        IN /\ ret = Nil <=> ok
           /\ (ok /\ arg # "nil") => Len(retKeys) = 1 /\ src[1].id = retKeys[1].id
           /\ ~ok => ret = query.err
           /\ (~ok /\ arg # "nil") => src[1].id = 0

\* C18 witness: Next has swallowed a field mismatch and stamped the key.
C18_Witness ==
    /\ pc = "returned"
    /\ op = "Next"
    /\ arg = "struct"
    /\ errFieldMismatch(query.err)
    /\ ret = Nil
    /\ src[1].id = 1

\* C19: inTransaction stays false whatever is called, inside the function
\* of RunInTransaction too, so a GetMulti that gets past extractKeys always
\* fans out into goroutines.
C19_NeverInTransaction ==
    /\ inTransaction = FALSE
    /\ (op = "GetMulti" /\ pc \in {"waiting", "returned"} /\ ret.kind # "gosto") =>
          DOMAIN tasks # {}

\* C19 witness: a GetMulti called inside RunInTransaction has returned from
\* its goroutine.
C19_Witness ==
    /\ tx = "open"
    /\ pc = "returned"
    /\ op = "GetMulti"
    /\ Len(src) > 0
    /\ DOMAIN tasks = {0}
    /\ tasks[0].pc = "done"
====
